---------------------------- MODULE Spec2Model ----------------------------
(***************************************************************************)
(* bevy_upward: alignment of entities with a local up direction.           *)
(*                                                                         *)
(* Representation.  A Dir3 / unit Vec3 is an integer triple standing for   *)
(* the unit vector of that direction (<<0,1,-1>> is (0,1,-1)/sqrt 2), as   *)
(* try_normalize returns it.  A rotation (Quat) is given by the            *)
(* triple of its basis columns <<right, up, back>>, i.e. the Mat3 the      *)
(* quaternion stands for, so Quat products are matrix products.  Local up  *)
(* ranges over the six axis directions, which keeps every arc rotation in  *)
(* the rotation group of the cube; forward ranges over the axes and the    *)
(* face diagonals, roll over quarter turns.  Angles are counted in quarter *)
(* turns, rates in quarter turns per time unit.  Floating point rounding   *)
(* is not modelled: the arithmetic is exact.                               *)
(***************************************************************************)
EXTENDS Integers, Sequences, FiniteSets

\* Largest value of Time::delta_seconds() drawn for a frame.
MaxDt == 2

\* Option::None, for every optional component and value.
None == <<>>

Entity == {"e1", "e2"}

-----------------------------------------------------------------------------
(* bevy_math as used by the library *)

Abs(n) == IF n < 0 THEN -n ELSE n

RECURSIVE Gcd(_, _)
Gcd(a, b) == IF b = 0 THEN a ELSE Gcd(b, a % b)

Zero == <<0, 0, 0>>

Neg(v) == <<-v[1], -v[2], -v[3]>>

Scale(k, v) == <<k * v[1], k * v[2], k * v[3]>>

Add(v, w) == <<v[1] + w[1], v[2] + w[2], v[3] + w[3]>>

Dot(v, w) == v[1] * w[1] + v[2] * w[2] + v[3] * w[3]

Cross(v, w) == <<v[2] * w[3] - v[3] * w[2],
                 v[3] * w[1] - v[1] * w[3],
                 v[1] * w[2] - v[2] * w[1]>>

\* Vec3::try_normalize: None for the zero vector, else the unit vector of
\* the same direction (its integer representative).
try_normalize(v) ==
    IF v = Zero THEN None
    ELSE LET g == Gcd(Gcd(Abs(v[1]), Abs(v[2])), Abs(v[3]))
         IN  <<v[1] \div g, v[2] \div g, v[3] \div g>>

\* The product of two perpendicular unit vectors is a unit vector; on
\* representatives the length is divided out.
UnitCross(v, w) == try_normalize(Cross(v, w))

Axes == {<<1, 0, 0>>, <<-1, 0, 0>>, <<0, 1, 0>>, <<0, -1, 0>>,
         <<0, 0, 1>>, <<0, 0, -1>>}

Diagonals == {v \in {-1, 0, 1} \X {-1, 0, 1} \X {-1, 0, 1} : Dot(v, v) = 2}

Identity == <<<<1, 0, 0>>, <<0, 1, 0>>, <<0, 0, 1>>>>

\* Mat3 * Vec3, the matrix given by its columns.
MatVec(m, v) == Add(Add(Scale(v[1], m[1]), Scale(v[2], m[2])), Scale(v[3], m[3]))

\* Quat * Quat: the composition, first q then p.
QuatMul(p, q) == <<MatVec(p, q[1]), MatVec(p, q[2]), MatVec(p, q[3])>>

\* Mat3::from_cols followed by Quat::from_mat3.
from_mat3_cols(x, y, z) == <<x, y, z>>

\* Vec3::any_orthonormal_vector of an axis direction (signum(0.0) = 1.0).
any_orthonormal_vector(v) ==
    LET sign == IF v[3] < 0 THEN -1 ELSE 1
    IN  IF v[3] # 0 THEN <<0, sign, 0>>
        ELSE <<-(v[1] * v[2]) * sign, sign - v[2] * v[2] * sign, -v[2]>>

\* Quat::from_axis_angle(k, PI): v |-> 2 k (k . v) - v.
HalfTurn(k) ==
    LET img(v) == Add(Scale(2 * Dot(k, v), k), Neg(v))
    IN  <<img(Identity[1]), img(Identity[2]), img(Identity[3])>>

\* The quarter turn about k: v |-> k (k . v) + k x v.
QuarterTurn(k) ==
    LET img(v) == Add(Scale(Dot(k, v), k), Cross(k, v))
    IN  <<img(Identity[1]), img(Identity[2]), img(Identity[3])>>

\* Quat::from_rotation_arc(from, to) for axis directions.
from_rotation_arc(from, to) ==
    IF Dot(from, to) = 1 THEN Identity
    ELSE IF Dot(from, to) = -1 THEN HalfTurn(any_orthonormal_vector(from))
    ELSE QuarterTurn(Cross(from, to))

\* Transform::local_z and Transform::forward.
local_z(rot) == rot[3]

forward(rot) == Neg(local_z(rot))

\* rot * Quat::from_rotation_z(k quarter turns): a roll about local z.
Roll(rot, k) ==
    CASE k % 4 = 0 -> rot
      [] k % 4 = 1 -> <<rot[2], Neg(rot[1]), rot[3]>>
      [] k % 4 = 2 -> <<Neg(rot[1]), Neg(rot[2]), rot[3]>>
      [] k % 4 = 3 -> <<Neg(rot[2]), rot[1], rot[3]>>

\* The orientations of the model: forward an axis or a face diagonal, right
\* perpendicular to it, an axis whenever forward is one.
Orientations ==
    {<<p[1], UnitCross(p[2], p[1]), p[2]>> :
        p \in {q \in (Axes \cup Diagonals) \X (Axes \cup Diagonals) :
                 /\ Dot(q[1], q[2]) = 0
                 /\ q[2] \in Axes => q[1] \in Axes}}

-----------------------------------------------------------------------------
(* Components and schedule state *)

VARIABLES
    spawned,      \* the entities of the World
    rotation,     \* Transform::rotation of each entity, None without Transform
    localUp,      \* LocalUp of each entity, None when the component is absent
    oldUp,        \* OldUp of each entity, None when the component is absent
    alignMode,    \* AlignMode of each entity, None when the component is absent
    commands,     \* deferred Commands not yet applied, in queue order
    done,         \* systems of PostUpdate that have run in the current frame
    delta,        \* Time::delta_seconds() read by align_up in the current frame
    panicked,     \* the unreachable!() of sync_old_up was hit
    preRot,       \* history: rotation as align_up found it in the current frame
    preOldUp,     \* history: oldUp as align_up found it in the current frame
    moved,        \* history: a movement system wrote rotation in the current frame
    prevLocalUp   \* history: localUp at the end of the previous frame

vars == <<spawned, rotation, localUp, oldUp, alignMode, commands, done, delta,
          panicked, preRot, preOldUp, moved, prevLocalUp>>

\* AlignMode::Linear { rate } and AlignMode::Exponential { factor }, the
\* factor given as numerator and denominator.
Linear(rate) == <<"Linear", rate>>

Exponential(num, den) == <<"Exponential", num, den>>

AlignModes == {None, Linear(1), Exponential(1, 2), Exponential(3, 2)}

\* The systems of PostUpdate and the ordering local_up_plugin configures.
Systems == {"align_up", "sync_old_up", "TransformPropagate"}

AlignUpSet == {"align_up", "sync_old_up"}

\* Mutation of ChainEdges: the two systems are added without chain().
NoChainEdges == {}

\* (align_up, sync_old_up).chain()
ChainEdges == {<<"align_up", "sync_old_up">>}

\* AlignUp.before(TransformPropagate)
SetEdges == AlignUpSet \X {"TransformPropagate"}

Before == ChainEdges \cup SetEdges

\* Mutation of Deferred: no system is known to queue commands, so the
\* scheduler places no sync point.
NoDeferred == {}

\* Systems taking a Commands parameter.
Deferred == {"align_up", "sync_old_up"}

\* A system may start once the systems ordered before it have run; the
\* scheduler puts an apply_deferred sync point on every edge that leaves a
\* system with deferred parameters.
Ready(s) ==
    /\ ~panicked
    /\ s \notin done
    /\ \A p \in Systems : <<p, s>> \in Before => p \in done
    /\ (\E p \in Deferred : <<p, s>> \in Before) => commands = <<>>

\* The enumerations of a query's matches, one per iteration order.
Orders(S) ==
    {o \in [1..Cardinality(S) -> S] : \A i, j \in DOMAIN o : o[i] = o[j] => i = j}

RECURSIVE Flatten(_)
Flatten(ss) == IF ss = <<>> THEN <<>> ELSE Head(ss) \o Flatten(Tail(ss))

-----------------------------------------------------------------------------
(* align_up *)

\* Query<(Entity, &LocalUp, Option<&OldUp>, Option<&AlignMode>, &mut Transform)>
AlignQuery == {e \in spawned : localUp[e] # None /\ rotation[e] # None}

\* Mutation of PreserveAttitude: a missing OldUp is read as Dir3::Y.
PreserveAttitudeDefaultY(rot, local_up, old_up) ==
    QuatMul(from_rotation_arc(IF old_up # None THEN old_up ELSE <<0, 1, 0>>, local_up),
            rot)

\* Mutation of PreserveAttitude: the arc is multiplied on the right.
PreserveAttitudePostMul(rot, local_up, old_up) ==
    IF old_up # None
    THEN QuatMul(rot, from_rotation_arc(old_up, local_up))
    ELSE rot

\* The arc rotation applied when OldUp is present.
PreserveAttitude(rot, local_up, old_up) ==
    IF old_up # None
    THEN QuatMul(from_rotation_arc(old_up, local_up), rot)
    ELSE rot

\* Mutation of new_right: a zero cross product falls back to the negated
\* current right vector instead of None.
NewRightFallback(rot, local_up) ==
    IF Cross(forward(rot), local_up) = Zero THEN Neg(rot[1])
    ELSE try_normalize(Cross(forward(rot), local_up))

\* transform.forward().cross(*local_up.0).try_normalize()
new_right(rot, local_up) == try_normalize(Cross(forward(rot), local_up))

\* Mutation of target_rotation: the cross product is taken the other way round.
TargetCrossReversed(rot, local_up) ==
    LET right  == try_normalize(Cross(local_up, forward(rot)))
        new_up == UnitCross(right, forward(rot))
    IN  from_mat3_cols(right, new_up, local_z(rot))

\* Mutation of target_rotation: the third column is forward, not local z.
TargetForwardAsZ(rot, local_up) ==
    LET right  == new_right(rot, local_up)
        new_up == UnitCross(right, forward(rot))
    IN  from_mat3_cols(right, new_up, forward(rot))

target_rotation(rot, local_up) ==
    LET right  == new_right(rot, local_up)
        new_up == UnitCross(right, forward(rot))
    IN  from_mat3_cols(right, new_up, local_z(rot))

\* The roll, in quarter turns, that takes a to b (both with the same local z).
RollTo(a, b) ==
    IF b = Roll(a, 1) THEN 1
    ELSE IF b = Roll(a, 2) THEN 2
    ELSE IF b = Roll(a, 3) THEN 3
    ELSE 0

\* Quat::angle_between, in quarter turns: the angle of the shortest rotation.
angle_between(a, b) == LET k == RollTo(a, b) IN IF k = 3 THEN 1 ELSE k

\* Quat::slerp(a, b, num/den): along the shortest path from a to b, not
\* clamped.  At a half turn the two paths are equally short and the sign of
\* the quaternions decides: tie is that choice.
slerp(a, b, num, den, tie) ==
    LET k   == RollTo(a, b)
        dir == IF k = 1 THEN 1 ELSE IF k = 3 THEN -1 ELSE tie
    IN  Roll(a, dir * ((angle_between(a, b) * num) \div den))

\* The interpolated rotation is an orientation of the model.
OnGrid(a, b, num, den) == (angle_between(a, b) * num) % den = 0

Min(a, b) == IF a <= b THEN a ELSE b

\* Mutation of Converge: the Linear arm forgets the frame time and steps by
\* rate alone.
ConvergeIgnoresDt(rot, target, mode, dt, tie) ==
    IF mode = None THEN target
    ELSE IF mode[1] = "Linear" THEN
        LET angle_to_target == angle_between(rot, target)
        IN  IF angle_to_target = 0 THEN target
            ELSE LET delta_angle == Min(angle_to_target, mode[2])
                 IN  slerp(rot, target, delta_angle, angle_to_target, tie)
    ELSE slerp(rot, target, mode[2] * dt, mode[3], tie)

\* Mutation of Converge: the Exponential arm clamps the interpolation
\* parameter to 1.
ConvergeClamped(rot, target, mode, dt, tie) ==
    IF mode = None THEN target
    ELSE IF mode[1] = "Linear" THEN
        LET angle_to_target == angle_between(rot, target)
        IN  IF angle_to_target = 0 THEN target
            ELSE LET delta_angle == Min(angle_to_target, mode[2] * dt)
                 IN  slerp(rot, target, delta_angle, angle_to_target, tie)
    ELSE slerp(rot, target, Min(mode[2] * dt, mode[3]), mode[3], tie)

\* Mutation of Converge: the Linear arm calls slerp with its two rotations
\* exchanged.
ConvergeSwapped(rot, target, mode, dt, tie) ==
    IF mode = None THEN target
    ELSE IF mode[1] = "Linear" THEN
        LET angle_to_target == angle_between(rot, target)
        IN  IF angle_to_target = 0 THEN target
            ELSE LET delta_angle == Min(angle_to_target, mode[2] * dt)
                 IN  slerp(target, rot, delta_angle, angle_to_target, tie)
    ELSE slerp(rot, target, mode[2] * dt, mode[3], tie)

Converge(rot, target, mode, dt, tie) ==
    IF mode = None THEN target
    ELSE IF mode[1] = "Linear" THEN
        LET angle_to_target == angle_between(rot, target)
        IN  IF angle_to_target = 0 THEN target
            ELSE LET delta_angle == Min(angle_to_target, mode[2] * dt)
                 IN  slerp(rot, target, delta_angle, angle_to_target, tie)
    ELSE slerp(rot, target, mode[2] * dt, mode[3], tie)

\* One iteration of the loop of align_up: the new Transform::rotation.
AlignEntity(rot, local_up, old_up, mode, dt, tie) ==
    LET r1 == PreserveAttitude(rot, local_up, old_up)
    IN  IF new_right(r1, local_up) = None THEN r1
        ELSE Converge(r1, target_rotation(r1, local_up), mode, dt, tie)

\* Mutation of AlignTransform: LocalUp is optional in the query and a
\* missing one is read as Dir3::Y.
AlignTransformDefaultUp(e, dt, tie) ==
    IF e \in spawned /\ rotation[e] # None
    THEN AlignEntity(rotation[e],
                     IF localUp[e] # None THEN localUp[e] ELSE <<0, 1, 0>>,
                     oldUp[e], alignMode[e], dt, tie)
    ELSE rotation[e]

\* Mutation of AlignTransform: LocalUp is read once, from the first match of
\* the query, and used for every entity of the loop.
AlignTransformSharedUp(e, dt, tie) ==
    IF e \in AlignQuery
    THEN LET first == CHOOSE x \in AlignQuery : TRUE
         IN  AlignEntity(rotation[e], localUp[first], oldUp[e], alignMode[e], dt, tie)
    ELSE rotation[e]

\* The rotation align_up leaves on entity e: entities the query does not
\* match are not visited.
AlignTransform(e, dt, tie) ==
    IF e \in AlignQuery
    THEN AlignEntity(rotation[e], localUp[e], oldUp[e], alignMode[e], dt, tie)
    ELSE rotation[e]

\* commands.entity(e).insert(OldUp(local_up.0))
AlignCommand(e, local_up) == <<"insert", e, local_up>>

\* Mutation of AlignCommands: the insert is issued after the early exit, so
\* an iteration that leaves through `continue` queues nothing.
AlignCommandsAfterExit(e, rot, local_up, old_up) ==
    IF new_right(PreserveAttitude(rot, local_up, old_up), local_up) = None
    THEN <<>>
    ELSE << AlignCommand(e, local_up) >>

\* The commands one iteration of the loop of align_up queues: the insert
\* stands before the early exit, so every iteration queues it.
AlignCommands(e, rot, local_up, old_up) == << AlignCommand(e, local_up) >>

Representable(e, dt) ==
    LET r1 == PreserveAttitude(rotation[e], localUp[e], oldUp[e])
        m  == alignMode[e]
    IN  (m # None /\ m[1] = "Exponential" /\ new_right(r1, localUp[e]) # None)
            => OnGrid(r1, target_rotation(r1, localUp[e]), m[2] * dt, m[3])

AlignUp ==
    /\ Ready("align_up")
    /\ \E dt \in 0..MaxDt, tie \in [Entity -> {-1, 1}], order \in Orders(AlignQuery) :
          /\ \A e \in AlignQuery : Representable(e, dt)
          /\ rotation' = [e \in Entity |-> AlignTransform(e, dt, tie[e])]
          /\ commands' = commands \o
                Flatten([i \in DOMAIN order |->
                    AlignCommands(order[i], rotation[order[i]],
                                  localUp[order[i]], oldUp[order[i]])])
          /\ delta' = dt
    /\ preRot' = rotation
    /\ preOldUp' = oldUp
    /\ done' = done \cup {"align_up"}
    /\ UNCHANGED <<spawned, localUp, oldUp, alignMode, panicked, moved, prevLocalUp>>

-----------------------------------------------------------------------------
(* sync_old_up *)

\* Mutation of SyncQuery: the query asks for LocalUp alone.
SyncQueryLocalUpOnly == {e \in spawned : localUp[e] # None}

\* Mutation of SyncQuery: both components optional, every entity matches.
SyncQueryAll == spawned

\* Query<(Entity, AnyOf<(&LocalUp, &OldUp)>)>
SyncQuery == {e \in spawned : localUp[e] # None \/ oldUp[e] # None}

\* The (None, None) arm.
SyncUnreachable(local_up, old_up) == local_up = None /\ old_up = None

\* Mutation of SyncCommands: the (None, Some(_)) arm queues nothing.
SyncCommandsNoRemove(e, local_up, old_up) ==
    IF local_up = None THEN <<>> ELSE << <<"insert", e, local_up>> >>

\* The commands one iteration of the loop of sync_old_up queues.
SyncCommands(e, local_up, old_up) ==
    IF local_up = None
    THEN IF old_up = None THEN <<>> ELSE << <<"remove", e>> >>
    ELSE << <<"insert", e, local_up>> >>

SyncOldUp ==
    /\ Ready("sync_old_up")
    /\ \E order \in Orders(SyncQuery) :
          commands' = commands \o
              Flatten([i \in DOMAIN order |->
                  SyncCommands(order[i], localUp[order[i]], oldUp[order[i]])])
    /\ panicked' = \E e \in SyncQuery : SyncUnreachable(localUp[e], oldUp[e])
    /\ done' = done \cup {"sync_old_up"}
    /\ UNCHANGED <<spawned, rotation, localUp, oldUp, alignMode, delta, preRot,
                   preOldUp, moved, prevLocalUp>>

-----------------------------------------------------------------------------
(* The rest of the frame *)

\* One command applied to the OldUp storage.
ApplyCommand(cmd, store) ==
    IF cmd[1] = "insert" THEN [store EXCEPT ![cmd[2]] = cmd[3]]
    ELSE [store EXCEPT ![cmd[2]] = None]

RECURSIVE ApplyAll(_, _)
ApplyAll(cmds, store) ==
    IF cmds = <<>> THEN store
    ELSE ApplyAll(Tail(cmds), ApplyCommand(Head(cmds), store))

\* The sync point: the queued commands are applied in order.
ApplyDeferred ==
    /\ ~panicked
    /\ commands # <<>>
    /\ oldUp' = ApplyAll(commands, oldUp)
    /\ commands' = <<>>
    /\ UNCHANGED <<spawned, rotation, localUp, alignMode, done, delta, panicked,
                   preRot, preOldUp, moved, prevLocalUp>>

TransformPropagate ==
    /\ Ready("TransformPropagate")
    /\ done' = done \cup {"TransformPropagate"}
    /\ UNCHANGED <<spawned, rotation, localUp, oldUp, alignMode, commands, delta,
                   panicked, preRot, preOldUp, moved, prevLocalUp>>

\* The frame ends and the next one begins.
NextFrame ==
    /\ ~panicked
    /\ done = Systems
    /\ commands = <<>>
    /\ done' = {}
    /\ delta' = 0
    /\ preRot' = [e \in Entity |-> None]
    /\ preOldUp' = [e \in Entity |-> None]
    /\ moved' = [e \in Entity |-> FALSE]
    /\ prevLocalUp' = localUp
    /\ UNCHANGED <<spawned, rotation, localUp, oldUp, alignMode, commands, panicked>>

\* The Update schedule: nothing of PostUpdate has run yet.
InUpdate == ~panicked /\ done = {}

\* The up-direction provider inserts or replaces LocalUp.
InsertLocalUp ==
    /\ InUpdate
    /\ \E e \in spawned, up \in Axes :
          /\ localUp[e] # up
          /\ localUp' = [localUp EXCEPT ![e] = up]
    /\ UNCHANGED <<spawned, rotation, oldUp, alignMode, commands, done, delta,
                   panicked, preRot, preOldUp, moved, prevLocalUp>>

\* The up-direction provider removes LocalUp.
RemoveLocalUp ==
    /\ InUpdate
    /\ \E e \in spawned :
          /\ localUp[e] # None
          /\ localUp' = [localUp EXCEPT ![e] = None]
    /\ UNCHANGED <<spawned, rotation, oldUp, alignMode, commands, done, delta,
                   panicked, preRot, preOldUp, moved, prevLocalUp>>

\* The host removes OldUp, as the documentation of OldUp suggests.
RemoveOldUp ==
    /\ InUpdate
    /\ \E e \in spawned :
          /\ oldUp[e] # None
          /\ oldUp' = [oldUp EXCEPT ![e] = None]
    /\ UNCHANGED <<spawned, rotation, localUp, alignMode, commands, done, delta,
                   panicked, preRot, preOldUp, moved, prevLocalUp>>

\* A movement system writes the rotation.
Movement ==
    /\ InUpdate
    /\ \E e \in spawned, r \in Orientations :
          /\ rotation[e] # None
          /\ rotation[e] # r
          /\ rotation' = [rotation EXCEPT ![e] = r]
          /\ moved' = [moved EXCEPT ![e] = TRUE]
    /\ UNCHANGED <<spawned, localUp, oldUp, alignMode, commands, done, delta,
                   panicked, preRot, preOldUp, prevLocalUp>>

InitWith(ents) ==
    /\ spawned = ents
    /\ rotation \in [Entity -> {None, Identity}]
    /\ \A e \in Entity \ ents : rotation[e] = None
    /\ alignMode \in [Entity -> AlignModes]
    /\ \A e \in Entity \ ents : alignMode[e] = None
    /\ localUp = [e \in Entity |-> None]
    /\ oldUp = [e \in Entity |-> None]
    /\ commands = <<>>
    /\ done = {}
    /\ delta = 0
    /\ panicked = FALSE
    /\ preRot = [e \in Entity |-> None]
    /\ preOldUp = [e \in Entity |-> None]
    /\ moved = [e \in Entity |-> FALSE]
    /\ prevLocalUp = [e \in Entity |-> None]

Init == InitWith({"e1"})

Next ==
    \/ InsertLocalUp
    \/ RemoveLocalUp
    \/ RemoveOldUp
    \/ Movement
    \/ AlignUp
    \/ SyncOldUp
    \/ ApplyDeferred
    \/ TransformPropagate
    \/ NextFrame

Spec == Init /\ [][Next]_vars

TypeOK ==
    /\ \A e \in Entity : rotation[e] \in Orientations \cup {None}
    /\ \A e \in Entity : localUp[e] \in Axes \cup {None}
    /\ \A e \in Entity : oldUp[e] \in Axes \cup {None}
    /\ \A e \in Entity : alignMode[e] \in AlignModes
    /\ delta \in 0..MaxDt
    /\ done \subseteq Systems

-----------------------------------------------------------------------------
(* Points of the frame the properties speak about *)

\* align_up is the next system to run: what it would read is the state.
AtEngine == Ready("align_up")

\* align_up has visited entity e in the current frame.
Visited(e) ==
    /\ e \in spawned
    /\ "align_up" \in done
    /\ localUp[e] # None
    /\ preRot[e] # None

\* Every system of the frame has run and every deferred command is applied.
EndOfFrame == done = Systems /\ commands = <<>>

\* Whether cmd is among the queued commands.
Queued(cmd) == \E i \in DOMAIN commands : commands[i] = cmd

-----------------------------------------------------------------------------
(* Properties *)

\* C1: whenever align_up finds OldUp present on an entity, the entity had
\* LocalUp at the end of the preceding frame and OldUp holds exactly that
\* value: one frame of lag, never more.
C1_OneFrameLag ==
    \A e \in spawned :
        (AtEngine /\ oldUp[e] # None)
            => (prevLocalUp[e] # None /\ oldUp[e] = prevLocalUp[e])

\* The engine is about to read an OldUp that differs from the LocalUp the
\* provider has just written.
C1_Witness ==
    \E e \in AlignQuery :
        /\ AtEngine
        /\ oldUp[e] # None
        /\ oldUp[e] # localUp[e]

\* C2: at the end of every frame OldUp mirrors LocalUp (present with the
\* same value, or both absent), so it appears in the frame LocalUp appears
\* and is gone at the end of the frame LocalUp is withdrawn; and a step takes
\* OldUp away only in the Update schedule (the host) or when the commands of
\* sync_old_up are applied for an entity without LocalUp: never earlier.
C2_TrackerLifecycle ==
    [][ /\ EndOfFrame' => \A e \in spawned : oldUp'[e] = localUp'[e]
        /\ \A e \in spawned :
              (oldUp[e] # None /\ oldUp'[e] = None)
                  => \/ done = {}
                     \/ "sync_old_up" \in done /\ localUp[e] = None ]_vars

\* LocalUp was present at the end of the previous frame and is withdrawn
\* in this one; the tracker's removal has been applied.
C2_Witness ==
    \E e \in spawned :
        /\ EndOfFrame
        /\ prevLocalUp[e] # None
        /\ preOldUp[e] # None
        /\ localUp[e] = None
        /\ oldUp[e] = None

\* C3: sync_old_up never visits an entity that has neither LocalUp nor
\* OldUp, so its unreachable!() arm is never taken.
C3_NeverUnreachable ==
    /\ ~panicked
    /\ Ready("sync_old_up")
          => \A e \in SyncQuery : ~SyncUnreachable(localUp[e], oldUp[e])

\* sync_old_up has run in a frame in which a spawned entity had neither
\* component.
C3_Witness ==
    \E e \in spawned :
        /\ "sync_old_up" \in done
        /\ ~panicked
        /\ prevLocalUp[e] = None
        /\ preOldUp[e] = None
        /\ localUp[e] = None
        /\ oldUp[e] = None

\* The forward vector of entity e after the attitude-preservation step of
\* the current frame.
ForwardAfterArc(e) == forward(PreserveAttitude(preRot[e], localUp[e], preOldUp[e]))

\* C4: when align_up finds no OldUp on an entity it applies no arc rotation:
\* the forward vector after the frame is the forward vector before the
\* engine ran, under every AlignMode, and the rotation differs from the
\* earlier one by a roll about forward at most.
C4_NoOldUpKeepsLook ==
    \A e \in spawned :
        (Visited(e) /\ preOldUp[e] = None)
            => /\ forward(rotation[e]) = forward(preRot[e])
               /\ \E k \in 0..3 : rotation[e] = Roll(preRot[e], k)

\* The host removed OldUp in the frame in which LocalUp changed, and the
\* engine rolled the entity.
C4_Witness ==
    \E e \in spawned :
        /\ Visited(e)
        /\ preOldUp[e] = None
        /\ prevLocalUp[e] # None
        /\ prevLocalUp[e] # localUp[e]
        /\ rotation[e] # preRot[e]

\* C5: the events of a frame come in one order: LocalUp production and
\* movement, align_up, the application of its commands, sync_old_up, the
\* application of its commands, transform propagation; nothing is left
\* unapplied when the next frame starts.
C5_FrameOrder ==
    [][ /\ done' # done =>
              <<done, done'>> \in
                  { <<{}, {"align_up"}>>,
                    <<{"align_up"}, {"align_up", "sync_old_up"}>>,
                    <<{"align_up", "sync_old_up"}, Systems>>,
                    <<Systems, {}>> }
        /\ localUp' # localUp => (done = {} /\ done' = {})
        /\ rotation' # rotation => done = {}
        /\ "sync_old_up" \in done' \ done => commands = <<>>
        /\ "TransformPropagate" \in done' \ done => commands = <<>>
        /\ done' = {} => commands' = <<>> ]_vars

\* A whole frame has run in which the engine's write changed OldUp.
C5_Witness ==
    \E e \in spawned :
        /\ EndOfFrame
        /\ Visited(e)
        /\ preOldUp[e] # oldUp[e]

\* C6: a step changes the rotation of an entity that has no LocalUp only
\* when it is a movement system's write in the Update schedule, whatever the
\* entity's OldUp and AlignMode: no system of PostUpdate touches it, and it
\* stays as it is from frame to frame until LocalUp is back.
C6_NoLocalUpFrozen ==
    [][ \A e \in spawned :
            (localUp[e] = None /\ rotation'[e] # rotation[e])
                => (done = {} /\ done' = {} /\ moved'[e]) ]_vars

\* A frame has run on an entity whose LocalUp was withdrawn while OldUp was
\* still present, with an interpolating AlignMode and a rolled rotation.
C6_Witness ==
    \E e \in spawned :
        /\ EndOfFrame
        /\ localUp[e] = None
        /\ prevLocalUp[e] # None
        /\ preOldUp[e] # None
        /\ alignMode[e] # None
        /\ rotation[e] \notin {None, Identity}

\* C7: when align_up finds OldUp = U_old and LocalUp = U_new, the arc
\* rotation maps U_old onto U_new and is multiplied on the left: the forward
\* vector after the frame is the arc applied to the earlier forward vector,
\* so it stands to U_new as the earlier one stood to U_old (same dot
\* product), unchanged when U_old = U_new; the later steps only roll about
\* forward, and in the degenerate case the rotation is arc * R itself.
C7_AttitudePreserved ==
    \A e \in spawned :
        (Visited(e) /\ preOldUp[e] # None) =>
            LET arc == from_rotation_arc(preOldUp[e], localUp[e])
            IN  /\ MatVec(arc, preOldUp[e]) = localUp[e]
                /\ forward(rotation[e]) = MatVec(arc, forward(preRot[e]))
                /\ Dot(forward(rotation[e]), localUp[e])
                       = Dot(forward(preRot[e]), preOldUp[e])
                /\ preOldUp[e] = localUp[e]
                       => forward(rotation[e]) = forward(preRot[e])
                /\ \E k \in 0..3 : rotation[e] = Roll(QuatMul(arc, preRot[e]), k)
                /\ Cross(forward(rotation[e]), localUp[e]) = Zero
                       => rotation[e] = QuatMul(arc, preRot[e])

\* The up direction turned by a quarter turn under an entity that looks 45
\* degrees above the old horizon.
C7_Witness ==
    \E e \in spawned :
        /\ Visited(e)
        /\ preOldUp[e] # None
        /\ Dot(preOldUp[e], localUp[e]) = 0
        /\ forward(preRot[e]) \in Diagonals
        /\ Dot(forward(preRot[e]), preOldUp[e]) = 1
        /\ forward(rotation[e]) # forward(preRot[e])

\* C8: without AlignMode, one pass of align_up over a non-degenerate entity
\* leaves exactly the target: forward is the forward vector F left by the
\* arc step, right is normalize(F x U) and perpendicular to U, up is
\* right x F; from the identity with LocalUp = Y and no OldUp the result is
\* the identity.
C8_SnapIsTarget ==
    \A e \in spawned :
        (Visited(e) /\ alignMode[e] = None) =>
            LET F == ForwardAfterArc(e)
                U == localUp[e]
                R == try_normalize(Cross(F, U))
            IN  /\ Cross(F, U) # Zero =>
                      /\ forward(rotation[e]) = F
                      /\ rotation[e][1] = R
                      /\ Dot(R, U) = 0
                      /\ rotation[e][2] = UnitCross(R, F)
                /\ (preRot[e] = Identity /\ preOldUp[e] = None /\ U = <<0, 1, 0>>)
                      => rotation[e] = Identity

\* A snap that rolled an entity looking 45 degrees off the horizon, where
\* the target's up vector is not LocalUp itself.
C8_Witness ==
    \E e \in spawned :
        /\ Visited(e)
        /\ alignMode[e] = None
        /\ forward(rotation[e]) \in Diagonals
        /\ Dot(forward(rotation[e]), localUp[e]) # 0
        /\ rotation[e][2] # localUp[e]
        /\ rotation[e] # preRot[e]

\* C9: without AlignMode, when LocalUp is what it was at the end of the
\* previous frame, OldUp equals it and no movement system wrote the rotation
\* since the previous pass, the rotation align_up found is already the
\* target (right = normalize(F x U)) when the geometry is non-degenerate,
\* and the pass leaves it as it is.
C9_SnapIdempotent ==
    \A e \in spawned :
        ( /\ Visited(e)
          /\ alignMode[e] = None
          /\ ~moved[e]
          /\ prevLocalUp[e] = localUp[e]
          /\ preOldUp[e] = localUp[e] )
            => /\ rotation[e] = preRot[e]
               /\ Cross(forward(preRot[e]), localUp[e]) # Zero
                      => preRot[e][1]
                             = try_normalize(Cross(forward(preRot[e]), localUp[e]))

\* A second pass over a snapped, non-degenerate entity.
C9_Witness ==
    \E e \in spawned :
        /\ Visited(e)
        /\ alignMode[e] = None
        /\ ~moved[e]
        /\ prevLocalUp[e] = localUp[e]
        /\ preOldUp[e] = localUp[e]
        /\ forward(preRot[e]) \in Diagonals
        /\ Cross(forward(preRot[e]), localUp[e]) # Zero
        /\ preRot[e] # Identity

\* The forward vector align_up finds on entity e is LocalUp or its negation.
DegenerateInput(e) == Cross(forward(preRot[e]), localUp[e]) = Zero

\* C10 as stated: whenever the forward vector found by align_up is LocalUp
\* or its negation, whatever OldUp is, the rotation after the frame is the
\* rotation before it.
C10_AsStated ==
    \A e \in spawned :
        (Visited(e) /\ DegenerateInput(e)) => rotation[e] = preRot[e]

\* C10, amended: whenever the forward vector found by align_up is LocalUp
\* or its negation and OldUp is absent or equal to LocalUp, the rotation
\* after the frame is the rotation before it, under every AlignMode, and
\* nothing fails.
C10_DegenerateUnchanged ==
    \A e \in spawned :
        (Visited(e) /\ DegenerateInput(e) /\ preOldUp[e] \in {None, localUp[e]})
            => (rotation[e] = preRot[e] /\ ~panicked)

\* A degenerate pass with OldUp present and an interpolating AlignMode.
C10_Witness ==
    \E e \in spawned :
        /\ Visited(e)
        /\ DegenerateInput(e)
        /\ preOldUp[e] = localUp[e]
        /\ alignMode[e] # None
        /\ "sync_old_up" \in done

\* C11: when the forward axis left by the arc step is parallel or
\* antiparallel to LocalUp, align_up leaves the rotation at the result of
\* the arc step whatever the AlignMode, still queues the insert of
\* OldUp(LocalUp), which is applied before any other system runs, and nothing
\* panics; the forward axis is still parallel to LocalUp afterwards, so the
\* same happens in every later frame until the forward axis or LocalUp is
\* changed.
C11_DegenerateEarlyExit ==
    \A e \in spawned :
        (Visited(e) /\ Cross(ForwardAfterArc(e), localUp[e]) = Zero)
            => /\ rotation[e] = PreserveAttitude(preRot[e], localUp[e], preOldUp[e])
               /\ ~panicked
               /\ \/ oldUp[e] = localUp[e]
                  \/ /\ done = {"align_up"}
                     /\ Queued(AlignCommand(e, localUp[e]))
               /\ Cross(forward(rotation[e]), localUp[e]) = Zero

\* The arc step turned the entity and left its forward axis along LocalUp,
\* under an AlignMode; the frame has run to its end.
C11_Witness ==
    \E e \in spawned :
        /\ Visited(e)
        /\ EndOfFrame
        /\ alignMode[e] # None
        /\ preOldUp[e] # None
        /\ preOldUp[e] # localUp[e]
        /\ rotation[e] # preRot[e]
        /\ Cross(ForwardAfterArc(e), localUp[e]) = Zero

\* The sign of p + b * sqrt(2), decided in integers.
NonNegSurd(p, b) ==
    IF p >= 0 /\ b >= 0 THEN TRUE
    ELSE IF p <= 0 /\ b <= 0 THEN FALSE
    ELSE IF p > 0 THEN p * p >= 2 * b * b
    ELSE 2 * b * b >= p * p

\* Twice the trace of the rotation that takes a to b, as <<p, b>> standing
\* for p + b * sqrt(2): the columns are direction representatives of squared
\* length 1 or 2, so a dot product is divided by 1, sqrt(2) or 2.
TwiceTrace(a, b) ==
    LET d(i) == Dot(a[i], b[i])
        q(i) == Dot(a[i], a[i]) * Dot(b[i], b[i])
        rat(i) == IF q(i) = 1 THEN 2 * d(i) ELSE IF q(i) = 4 THEN d(i) ELSE 0
        surd(i) == IF q(i) = 2 THEN d(i) ELSE 0
    IN  <<rat(1) + rat(2) + rat(3), surd(1) + surd(2) + surd(3)>>

\* Quat::angle_between(a, b) <= k quarter turns, for any two rotations: the
\* angle t of the rotation from a to b has 1 + 2 cos t = trace.
RotationAngleWithin(a, b, k) ==
    LET tt == TwiceTrace(a, b)
    IN  IF k >= 2 THEN TRUE
        ELSE IF k = 1 THEN NonNegSurd(tt[1] - 2, tt[2])
        ELSE a = b

\* align_up has visited entity e in the current frame under AlignMode::Linear.
LinearVisited(e) ==
    /\ Visited(e)
    /\ alignMode[e] # None
    /\ alignMode[e][1] = "Linear"

\* The rotation of entity e after the attitude-preservation step of the
\* current frame.
AfterArc(e) == PreserveAttitude(preRot[e], localUp[e], preOldUp[e])

\* The target rotation align_up computed for entity e in the current frame.
TargetOf(e) == target_rotation(AfterArc(e), localUp[e])

\* align_up did not take the early exit for entity e in the current frame.
NonDegenerate(e) == new_right(AfterArc(e), localUp[e]) # None

\* C12 as stated: under Linear the rotation before the frame and the
\* rotation after it are at most rate * dt apart, the angle to the target
\* does not grow, and at angle 0 the rotation is the target.
C12_AsStated ==
    \A e \in spawned :
        LinearVisited(e)
            => /\ RotationAngleWithin(preRot[e], rotation[e], alignMode[e][2] * delta)
               /\ NonDegenerate(e)
                    => /\ angle_between(rotation[e], TargetOf(e))
                            <= angle_between(AfterArc(e), TargetOf(e))
                       /\ angle_between(AfterArc(e), TargetOf(e)) = 0
                            => (rotation[e] = TargetOf(e) /\ rotation[e] = AfterArc(e))

\* C12: under Linear the convergence step turns the entity by at most
\* rate * dt: the rotation left by the arc step and the rotation after the
\* frame are at most rate * dt apart (so are the rotations before and after
\* the frame when OldUp is absent or equals LocalUp); the angle to the target
\* after the frame is never greater than before the convergence step; and at
\* angle 0 the rotation is set to the target, which leaves it unchanged.
C12_LinearBounded ==
    \A e \in spawned :
        LinearVisited(e)
            => /\ RotationAngleWithin(AfterArc(e), rotation[e], alignMode[e][2] * delta)
               /\ preOldUp[e] \in {None, localUp[e]}
                    => RotationAngleWithin(preRot[e], rotation[e], alignMode[e][2] * delta)
               /\ NonDegenerate(e)
                    => /\ angle_between(rotation[e], TargetOf(e))
                            <= angle_between(AfterArc(e), TargetOf(e))
                       /\ angle_between(AfterArc(e), TargetOf(e)) = 0
                            => (rotation[e] = TargetOf(e) /\ rotation[e] = AfterArc(e))

\* The arc step turned the entity, the target was a half turn away and the
\* rate allowed a quarter turn: the rotation stopped short of the target.
C12_Witness ==
    \E e \in spawned :
        /\ LinearVisited(e)
        /\ NonDegenerate(e)
        /\ preOldUp[e] # None
        /\ preOldUp[e] # localUp[e]
        /\ AfterArc(e) # preRot[e]
        /\ angle_between(AfterArc(e), TargetOf(e)) = 2
        /\ alignMode[e][2] * delta = 1
        /\ rotation[e] # AfterArc(e)
        /\ rotation[e] # TargetOf(e)

\* align_up has visited entity e in the current frame under
\* AlignMode::Exponential and did not take the early exit.
ExponentialStep(e) ==
    /\ Visited(e)
    /\ alignMode[e] # None
    /\ alignMode[e][1] = "Exponential"
    /\ NonDegenerate(e)

-----------------------------------------------------------------------------
(* Two entities in one world *)

\* The up directions the provider hands out in the world of two entities.
PairUps == {<<0, 1, 0>>, <<1, 0, 0>>}

\* The rotations the movement system writes in the world of two entities:
\* one with forward on an axis, one with forward on a face diagonal.
PairMoves == {Identity, <<<<1, 0, 0>>, <<0, 1, 1>>, <<0, -1, 1>>>>}

\* Two spawned entities, both with a Transform; the first aligns linearly,
\* the second has another AlignMode or none.
InitPair ==
    /\ InitWith(Entity)
    /\ rotation = [e \in Entity |-> Identity]
    /\ alignMode["e1"] = Linear(1)
    /\ alignMode["e2"] # Linear(1)

\* The frame of Next, with the provider drawing its values from PairUps and
\* the host acting on the second entity alone: the movement system writes
\* a rotation of PairMoves to it, and only its OldUp is removed by hand.
NextPair ==
    \/ InsertLocalUp /\ \A e \in Entity : localUp'[e] \in PairUps \cup {None}
    \/ RemoveLocalUp
    \/ RemoveOldUp /\ oldUp'["e1"] = oldUp["e1"]
    \/ Movement /\ rotation'["e1"] = rotation["e1"] /\ rotation'["e2"] \in PairMoves
    \/ AlignUp
    \/ SyncOldUp
    \/ ApplyDeferred
    \/ TransformPropagate
    \/ NextFrame

SpecPair == InitPair /\ [][NextPair]_vars

\* The query of align_up matches entity a, by a's own components.
OwnMatch(a) == localUp[a] # None /\ rotation[a] # None

\* The rotations align_up may leave on entity a in a frame of length dt,
\* computed from a's own components alone.
OwnAlign(a, dt) ==
    {AlignEntity(rotation[a], localUp[a], oldUp[a], alignMode[a], dt, tie) :
        tie \in {-1, 1}}

\* C14: alignment is per entity.  In a world of two entities, whatever the
\* components of the other entity and whatever the iteration order, the
\* rotation align_up leaves on an entity is a function of that entity's own
\* rotation, LocalUp, OldUp and AlignMode and of the frame time; the OldUp a
\* sync point leaves on it is a function of its own LocalUp and OldUp; and
\* no other step of PostUpdate touches either.
C14_PerEntity ==
    [][\A a \in spawned :
        /\ ("align_up" \in done' /\ "align_up" \notin done)
              => /\ rotation'[a] \in
                        (IF OwnMatch(a) THEN OwnAlign(a, delta') ELSE {rotation[a]})
                 /\ oldUp'[a] = oldUp[a]
        /\ (commands # <<>> /\ commands' = <<>>)
              => /\ rotation'[a] = rotation[a]
                 /\ oldUp'[a] = IF "sync_old_up" \in done \/ OwnMatch(a)
                                THEN localUp[a]
                                ELSE oldUp[a]
        /\ ("align_up" \in done /\ done' # done)
              => (rotation'[a] = rotation[a] /\ oldUp'[a] = oldUp[a]) ]_vars

\* Both entities were visited by align_up in one frame, with different
\* LocalUp, OldUp, AlignMode and rotation; the first was turned by the arc
\* step, and the commands of both have been applied.
C14_Witness ==
    /\ spawned = Entity
    /\ Visited("e1")
    /\ Visited("e2")
    /\ "sync_old_up" \notin done
    /\ commands = <<>>
    /\ localUp["e1"] # localUp["e2"]
    /\ preOldUp["e1"] # None
    /\ preOldUp["e2"] # None
    /\ preOldUp["e1"] # preOldUp["e2"]
    /\ preOldUp["e1"] # localUp["e1"]
    /\ alignMode["e1"] # alignMode["e2"]
    /\ preRot["e1"] # preRot["e2"]
    /\ rotation["e1"] # preRot["e1"]
    /\ rotation["e2"] # preRot["e2"]

\* sync_old_up is the next system to run.
AtTracker == Ready("sync_old_up")

\* C15 as stated: whenever sync_old_up is about to run, every entity with
\* LocalUp already has OldUp equal to it, and the commands of sync_old_up
\* change OldUp only by removing it from an entity without LocalUp.
C15_AsStated ==
    [][\A e \in spawned :
        /\ (AtTracker' /\ localUp'[e] # None) => oldUp'[e] = localUp'[e]
        /\ ("sync_old_up" \in done /\ oldUp'[e] # oldUp[e])
              => (localUp[e] = None /\ oldUp'[e] = None) ]_vars

\* C15: whenever sync_old_up is about to run, every entity with LocalUp and
\* a Transform already has OldUp equal to LocalUp, the insert of align_up
\* having been applied, so the insert of sync_old_up leaves it unchanged;
\* the commands of sync_old_up change OldUp only by removing it from an
\* entity without LocalUp or by giving an entity without Transform, which
\* align_up does not visit, the OldUp of its LocalUp.
C15_TrackerOnlyRemoves ==
    [][\A e \in spawned :
        /\ (AtTracker' /\ localUp'[e] # None /\ rotation'[e] # None)
              => oldUp'[e] = localUp'[e]
        /\ ("sync_old_up" \in done /\ oldUp'[e] # oldUp[e])
              => \/ localUp[e] = None /\ oldUp'[e] = None
                 \/ rotation[e] = None /\ oldUp'[e] = localUp[e] ]_vars

\* align_up moved OldUp of an entity with Transform to a new LocalUp, and
\* the commands of sync_old_up have been applied on top of it.
C15_Witness ==
    \E e \in spawned :
        /\ Visited(e)
        /\ "sync_old_up" \in done
        /\ commands = <<>>
        /\ preOldUp[e] # None
        /\ preOldUp[e] # localUp[e]
        /\ oldUp[e] = localUp[e]

-----------------------------------------------------------------------------
(* One entity under AlignMode::Linear, left alone once LocalUp is given *)

\* One entity with a Transform and AlignMode::Linear.
InitLinear ==
    /\ InitWith({"e1"})
    /\ rotation["e1"] = Identity
    /\ alignMode["e1"] = Linear(1)

\* The frame of Next with the surroundings held still: LocalUp is inserted
\* once and never replaced or removed, the movement system writes the
\* rotation only while LocalUp is absent, and every frame takes time.
NextLinear ==
    \/ InsertLocalUp /\ localUp["e1"] = None
    \/ Movement /\ localUp["e1"] = None
    \/ RemoveOldUp
    \/ AlignUp /\ delta' > 0
    \/ SyncOldUp
    \/ ApplyDeferred
    \/ TransformPropagate
    \/ NextFrame

\* The scheduler runs system s: s was ready and is now among the systems
\* that have run in this frame.
Runs(s) == Ready(s) /\ done' = done \cup {s}

\* The runner executes the schedules frame after frame: a system that is
\* ready runs, queued commands are applied, and the next frame begins.
FrameFairness ==
    /\ \A s \in Systems : WF_done(Runs(s))
    /\ WF_vars(ApplyDeferred)
    /\ WF_vars(NextFrame)

SpecLinear == InitLinear /\ [][NextLinear]_vars /\ FrameFairness

\* Entity e has LocalUp, a Transform and AlignMode::Linear, and its forward
\* axis is not parallel to LocalUp.
LinearAligning(e) ==
    /\ e \in spawned
    /\ localUp[e] # None
    /\ rotation[e] # None
    /\ alignMode[e] # None
    /\ alignMode[e][1] = "Linear"
    /\ Cross(forward(rotation[e]), localUp[e]) # Zero

\* The right axis of rot is perpendicular to up and its up axis is on the
\* side of up: what new_right and new_up make of a rotation.
Level(rot, up) == Dot(rot[1], up) = 0 /\ Dot(rot[2], up) > 0

\* The rotation of entity e is level with its LocalUp.
AtTarget(e) == LinearAligning(e) /\ Level(rotation[e], localUp[e])

\* C16: under Linear, with LocalUp present and constant, no other writer of
\* the rotation, a forward axis not parallel to LocalUp and rate * dt > 0 in
\* every frame, each pass of align_up takes min(angle, rate * dt) off the
\* angle to the target (so the target is reached within angle / (rate * dt)
\* frames, rounded up), the rotation eventually equals the target, and once
\* equal it stays equal.  The target is the one rotation with the same
\* forward axis that is level with LocalUp.
C16_LinearConverges ==
    /\ [](\A e \in spawned :
            (LinearVisited(e) /\ NonDegenerate(e))
                => angle_between(rotation[e], TargetOf(e))
                     = angle_between(AfterArc(e), TargetOf(e))
                         - Min(angle_between(AfterArc(e), TargetOf(e)),
                               alignMode[e][2] * delta))
    /\ [](\A e \in Entity :
            LinearAligning(e)
                => (Level(rotation[e], localUp[e])
                      <=> rotation[e] = target_rotation(rotation[e], localUp[e])))
    /\ \A e \in Entity : LinearAligning(e) ~> AtTarget(e)
    /\ [][\A e \in Entity :
            AtTarget(e) => (rotation'[e] = rotation[e] /\ localUp'[e] = localUp[e])]_vars

\* The target was a half turn away when LocalUp was given; a frame earlier
\* align_up stepped a quarter turn toward it, and in this frame it reached it.
C16_Witness ==
    \E e \in spawned :
        /\ LinearVisited(e)
        /\ NonDegenerate(e)
        /\ EndOfFrame
        /\ prevLocalUp[e] = localUp[e]
        /\ ~moved[e]
        /\ delta = 1
        /\ angle_between(AfterArc(e), TargetOf(e)) = 1
        /\ AtTarget(e)

=============================================================================
